---- MODULE Spec2Model ----
(***************************************************************************)
(* Model of the front-end hooks of Any-code.                               *)
(*                                                                         *)
(* Part 1: useSessionSync, the listener that reconciles the tabs of the    *)
(* Tab Registry (useTabs) with the 'claude-session-state' events of the    *)
(* backend (specifications Spec and SpecOutcome).                          *)
(* Part 2: normalizePath applied to pairs of project paths (SpecPath).     *)
(* Part 3: useCustomSlashCommands, the loader of the custom slash commands *)
(* (SpecLoader).                                                           *)
(* Part 4: useSlashCommandMenu, the autocomplete menu of the slash         *)
(* commands (SpecMenu).                                                    *)
(* Part 5: ThemeProvider, the theme and its persistence (SpecTheme).       *)
(*                                                                         *)
(* Every specification moves the variables of its own part and holds the   *)
(* variables of the other parts at their parked values.                    *)
(***************************************************************************)
EXTENDS Integers, Sequences, FiniteSets, TLC

(***************************************************************************)
(* Bounds of the model.                                                    *)
(***************************************************************************)
\* Largest number of tabs the registry holds.
MaxTabs == 2
\* Largest number of events the Event Bus delivers in one run.
MaxEvents == 2
\* Largest length of the project paths normalizePath is applied to.
MaxPathLen == 3
\* Largest number of calls of loadCommands() in one run.
MaxLoads == 3
\* Largest length of the prompt the menu is rendered for.
MaxPromptLen == 3

(***************************************************************************)
(* Values.                                                                 *)
(***************************************************************************)
\* A string is a sequence of characters.  `undefined` (an optional field
\* that is absent) is a one-element tuple holding a token that is no
\* character, so that it compares with every string and equals none.
Undefined == <<"undefined">>
\* The null session id of updateTabStreamingStatus(id, false, null) and of a
\* tab without a session (t.session?.id).
Null == "null"

SessionIds == {"s1", "s2"}
Statuses == {"started", "stopped"}

\* Project paths as the backend spells them: "", "A\" and "/".
ProjectPaths ==
  { <<>>, <<"A", "\\">>, <<"/">> }
\* The error texts of a `stopped` event.
ErrorTexts == { <<"o", "o", "m">> }
\* The optional boolean `success` of an event: absent, true or false.
NoFlag == "undefined"
SuccessFlags == { NoFlag, "true", "false" }

\* The payload of a 'claude-session-state' event: the fields the listener
\* reads, and the outcome fields `success` and `error`.
Events ==
  { e \in [ session_id : SessionIds,
            status : Statuses,
            project_path : ProjectPaths \cup {Undefined},
            error : ErrorTexts \cup {Undefined},
            success : {NoFlag} ] :
      e.status = "started" => e.error = Undefined }

\* The `stopped` events of every outcome: with and without a success flag,
\* without error, with the empty error text '' and with an error text.
OutcomeEvents ==
  [ session_id : {"s1"},
    status : {"stopped"},
    project_path : { Undefined, <<"A", "\\">> },
    error : ErrorTexts \cup { Undefined, <<>> },
    success : SuccessFlags ]

\* t.session of a tab that has no session: t.session?.id and
\* t.session?.project_path are undefined.
NoSession == [id |-> Null, project_path |-> Undefined]

\* JavaScript truthiness of an optional string: neither undefined nor ''.
Truthy(s) == s # Undefined /\ s # <<>>

(***************************************************************************)
(* normalizePath: p?.replace(/\\/g, '/').toLowerCase().replace(/\/+$/, '') *)
(*                || ''                                                    *)
(***************************************************************************)
ReplaceBackslashes(p) ==
  [i \in 1..Len(p) |-> IF p[i] = "\\" THEN "/" ELSE p[i]]

UpperLetters ==
  { "A", "B", "C", "D", "E", "F", "G", "H", "I", "J", "K", "L", "M",
    "N", "O", "P", "Q", "R", "S", "T", "U", "V", "W", "X", "Y", "Z" }

\* toLowerCase() of one character of a path spelled in ASCII.
LowerChar(c) ==
  IF c \notin UpperLetters
    THEN c
    ELSE CASE c = "A" -> "a"
    [] c = "B" -> "b"
    [] c = "C" -> "c"
    [] c = "D" -> "d"
    [] c = "E" -> "e"
    [] c = "F" -> "f"
    [] c = "G" -> "g"
    [] c = "H" -> "h"
    [] c = "I" -> "i"
    [] c = "J" -> "j"
    [] c = "K" -> "k"
    [] c = "L" -> "l"
    [] c = "M" -> "m"
    [] c = "N" -> "n"
    [] c = "O" -> "o"
    [] c = "P" -> "p"
    [] c = "Q" -> "q"
    [] c = "R" -> "r"
    [] c = "S" -> "s"
    [] c = "T" -> "t"
    [] c = "U" -> "u"
    [] c = "V" -> "v"
    [] c = "W" -> "w"
    [] c = "X" -> "x"
    [] c = "Y" -> "y"
    [] c = "Z" -> "z"

ToLowerCase(p) == [i \in 1..Len(p) |-> LowerChar(p[i])]

RECURSIVE StripTrailingSlashes(_)
StripTrailingSlashes(p) ==
  IF Len(p) > 0 /\ p[Len(p)] = "/"
    THEN StripTrailingSlashes(SubSeq(p, 1, Len(p) - 1))
    ELSE p

\* A normalization that strips the trailing slashes first and converts the
\* separators afterwards.
normalizePath_StripsFirst(p) ==
  IF p = Undefined
    THEN <<>>
    ELSE ToLowerCase(ReplaceBackslashes(StripTrailingSlashes(p)))

normalizePath(p) ==
  IF p = Undefined
    THEN <<>>
    ELSE StripTrailingSlashes(ToLowerCase(ReplaceBackslashes(p)))

(***************************************************************************)
(* State.                                                                  *)
(***************************************************************************)
VARIABLES
  tabs,            \* useTabs().tabs: the registry's ordered tab collection
  tabsRef,         \* tabsRef.current
  updateFnRef,     \* updateTabStreamingStatusRef.current
  phase,           \* "rendered" (effects not yet run), "mounted", "unmounted"
  listenState,     \* the promise of listen(): "none", "pending", "resolved", "rejected"
  unlisten,        \* the effect's local `unlisten`: "undefined" or "fn"
  activeSubs,      \* subscriptions to 'claude-session-state' active on the Event Bus
  listenCalls,     \* number of calls of listen()
  unlistenCalls,   \* number of calls of unlisten()
  setupErrors,     \* number of '[SessionSync] Failed to setup event listener' logs
  delivered,       \* number of events the listener has handled
  lastEvent,       \* payload of the event handled last
  lastMatch,       \* how the listener matched it: [by, tab (as read from tabsRef.current)]
  lastCalls,       \* calls of updateTabStreamingStatusRef.current issued for it
  lastLogs         \* console diagnostics emitted for it

syncVars ==
  << tabs, tabsRef, updateFnRef, phase, listenState, unlisten,
     activeSubs, listenCalls, unlistenCalls, setupErrors, delivered,
     lastEvent, lastMatch, lastCalls, lastLogs >>

registryVars == << tabs >>
refVars == << tabsRef, updateFnRef >>
subscriptionVars ==
  << phase, listenState, unlisten, activeSubs, listenCalls, unlistenCalls,
     setupErrors >>
handledVars == << delivered, lastEvent, lastMatch, lastCalls, lastLogs >>

(***************************************************************************)
(* State of part 2: one application of normalizePath to the project path   *)
(* of a tab and to the project_path of an event.                           *)
(***************************************************************************)
VARIABLES
  pathStage,       \* "input", "normalized", "renormalized" ("parked" elsewhere)
  tabPath,         \* the project path of a tab
  eventPath,       \* the project_path of an event
  normTab,         \* normalizePath(tabPath)
  normEvent,       \* normalizePath(eventPath)
  normAgain,       \* normalizePath(normTab)
  matchedBy        \* how the listener matches the event to the tab

pathVars ==
  << pathStage, tabPath, eventPath, normTab, normEvent, normAgain, matchedBy >>

PathParked ==
  /\ pathStage = "parked"
  /\ tabPath = <<>>
  /\ eventPath = <<>>
  /\ normTab = <<>>
  /\ normEvent = <<>>
  /\ normAgain = <<>>
  /\ matchedBy = "none"

(***************************************************************************)
(* State of part 3: useCustomSlashCommands.                                *)
(***************************************************************************)
VARIABLES
  loaderStage,     \* "rendered" (effect not yet run), "mounted" ("parked" elsewhere)
  optEnabled,      \* the option `enabled`
  optEngine,       \* the option `engine`
  optPath,         \* the option `projectPath`
  rawCommands,     \* useState: the commands as the backend returned them
  isLoading,       \* useState
  loadError,       \* useState `error`: Null or a message
  inFlight,        \* the invoke() calls that have not settled: [id, engine, path]
  loadCalls,       \* number of calls of loadCommands()
  backendCalls,    \* number of calls of invoke()
  lastLoad,        \* the last call of loadCommands(): [kind, id]
  settled,         \* number of invoke() calls that have settled
  lastSettled,     \* the invoke() call settled last: [id, kind, message]
  latestOutcome,   \* what the request of lastLoad set when it settled, if it has
  uncaught         \* rejections that left loadCommands()

loaderVars ==
  << loaderStage, optEnabled, optEngine, optPath, rawCommands, isLoading,
     loadError, inFlight, loadCalls, backendCalls, lastLoad, settled,
     lastSettled, latestOutcome, uncaught >>

NoLoad == [kind |-> "none", id |-> 0]
NoSettled == [id |-> 0, kind |-> "none", message |-> <<>>]
NoOutcome == [known |-> FALSE, commands |-> <<>>, error |-> Null]

LoaderParked ==
  /\ loaderStage = "parked"
  /\ optEnabled = TRUE
  /\ optEngine = "claude"
  /\ optPath = "p1"
  /\ rawCommands = <<>>
  /\ isLoading = FALSE
  /\ loadError = Null
  /\ inFlight = {}
  /\ loadCalls = 0
  /\ backendCalls = 0
  /\ lastLoad = NoLoad
  /\ settled = 0
  /\ lastSettled = NoSettled
  /\ latestOutcome = NoOutcome
  /\ uncaught = 0

(***************************************************************************)
(* State of part 4: useSlashCommandMenu.                                   *)
(***************************************************************************)
VARIABLES
  prompt,          \* the option `prompt`
  menuDisabled,    \* the option `disabled`
  menuEngine,      \* the option `engine`
  menuCustom,      \* the option `customCommands`
  selectedIndex,   \* useState
  isManuallyClose, \* useState
  lastAction       \* the last call into the hook: [kind (the key, for
                   \* handleKeyDown), returned, selected]

menuVars ==
  << prompt, menuDisabled, menuEngine, menuCustom, selectedIndex,
     isManuallyClose, lastAction >>

\* `selected` lists the arguments onCommandSelect was called with.
NoAction == [kind |-> "none", returned |-> FALSE, selected |-> <<>>]

MenuParked ==
  /\ prompt = <<>>
  /\ menuDisabled = TRUE
  /\ menuEngine = "parked"
  /\ menuCustom = <<>>
  /\ selectedIndex = 0
  /\ isManuallyClose = FALSE
  /\ lastAction = NoAction

(***************************************************************************)
(* State of part 5: ThemeProvider.                                         *)
(***************************************************************************)
VARIABLES
  theme,           \* useState<Theme>
  themeStage,      \* "rendered" (mount effects not yet run), "pending" (the
                   \* effect of [theme] has to run), "applied" ("parked" elsewhere)
  storedTheme,     \* localStorage.getItem('theme'): NoItem or a string
  rootClasses,     \* document.documentElement.classList
  colorMode,       \* the attribute data-color-mode of the document element
  titlebarTheme,   \* the last set_titlebar_theme sent: "none", "dark" (isDark), "light"
  titlebarWarned,  \* whether that invoke() rejected and was logged
  storedAtMount,   \* what localStorage held when the provider mounted
  themeCall,       \* the last call of the context since the mount: "none", "setTheme", "toggleTheme"
  themeBefore      \* the theme before that call

themeVars ==
  << theme, themeStage, storedTheme, rootClasses, colorMode, titlebarTheme,
     titlebarWarned, storedAtMount, themeCall, themeBefore >>

\* localStorage.getItem returns null for a key that is not stored.
NoItem == "null"

ThemeParked ==
  /\ theme = "light"
  /\ themeStage = "parked"
  /\ storedTheme = NoItem
  /\ rootClasses = {}
  /\ colorMode = "none"
  /\ titlebarTheme = "none"
  /\ titlebarWarned = FALSE
  /\ storedAtMount = NoItem
  /\ themeCall = "none"
  /\ themeBefore = "light"

otherVars == << pathVars, loaderVars, menuVars, themeVars >>

vars == << syncVars, otherVars >>

(***************************************************************************)
(* The Tab Registry (useTabs): tabs and the update operation.              *)
(***************************************************************************)
Tab(id, state, session, projectPath) ==
  [id |-> id, state |-> state, session |-> session, projectPath |-> projectPath]

\* The tabs a registry holds when the surface mounts, without their ids.
TabPool ==
  { \* a running session s1 whose project path is known through the session
    Tab(0, "streaming", [id |-> "s1", project_path |-> <<"a">>], Undefined),
    \* a loaded, idle session s2 of project "/" with an empty own path
    Tab(0, "idle", [id |-> "s2", project_path |-> <<"/">>], <<>>),
    \* a tab set streaming before its session id is recorded
    Tab(0, "streaming", NoSession, <<"a">>),
    \* a blank tab
    Tab(0, "idle", NoSession, Undefined) }

\* The tabs the user opens while the surface is mounted.
NewTabPool ==
  { \* a new tab of project "a", spelled "A\"
    Tab(0, "idle", NoSession, <<"A", "\\">>) }

WithIds(ts) == [i \in 1..Len(ts) |-> [ts[i] EXCEPT !.id = i]]

RECURSIVE SeqsUpTo(_, _)
SeqsUpTo(S, n) ==
  IF n = 0
    THEN { <<>> }
    ELSE LET shorter == SeqsUpTo(S, n - 1)
         IN shorter \cup { Append(q, x) : q \in shorter, x \in S }

TabCollections == { WithIds(ts) : ts \in SeqsUpTo(TabPool, MaxTabs) \ { <<>> } }

\* Identities of the function useTabs() returns as updateTabStreamingStatus.
FnIds == {"f1", "f2"}

\* A call of the registry's update operation.
Call(tabId, isStreaming, sessionId) ==
  [tabId |-> tabId, isStreaming |-> isStreaming, sessionId |-> sessionId]

\* updateTabStreamingStatus(tabId, isStreaming, sessionId) of useTabs: sets the
\* tab's state and its session association; other tabs are left alone.
updateTabStreamingStatus(ts, tabId, isStreaming, sessionId) ==
  [i \in 1..Len(ts) |->
     IF ts[i].id = tabId
       THEN [ts[i] EXCEPT !.state = IF isStreaming THEN "streaming" ELSE "idle",
                          !.session.id = sessionId]
       ELSE ts[i]]

RECURSIVE ApplyCalls(_, _)
ApplyCalls(ts, calls) ==
  IF calls = <<>>
    THEN ts
    ELSE ApplyCalls(
           updateTabStreamingStatus(ts, Head(calls).tabId,
                                    Head(calls).isStreaming, Head(calls).sessionId),
           Tail(calls))

(***************************************************************************)
(* The listener of 'claude-session-state': matching.                       *)
(***************************************************************************)
\* Array.prototype.find over the elements whose indices are in `hits`: the
\* index of the first one, 0 when there is none.
FindIndex(hits) ==
  IF hits = {}
    THEN 0
    ELSE CHOOSE i \in hits : \A j \in hits : i <= j

\* tabsRef.current.find(t => t.session?.id === session_id)
FindTabBySession(ts, session_id) ==
  FindIndex({ i \in 1..Len(ts) : ts[i].session.id = session_id })

\* t.projectPath || t.session?.project_path
tabProjectPath(t) ==
  IF Truthy(t.projectPath) THEN t.projectPath ELSE t.session.project_path

\* tabsRef.current.find(t => tabProjectPath &&
\*                           normalizePath(tabProjectPath) === normalizedEventPath)
FindTabByPath(ts, project_path) ==
  LET normalizedEventPath == normalizePath(project_path)
  IN FindIndex({ i \in 1..Len(ts) :
                   /\ Truthy(tabProjectPath(ts[i]))
                   /\ normalizePath(tabProjectPath(ts[i])) = normalizedEventPath })

NoTab == Tab(0, "none", NoSession, Undefined)

\* A listener that tries the project path before the session id.
MatchTab_PathFirst(ts, e) ==
  LET byPath == IF Truthy(e.project_path)
                  THEN FindTabByPath(ts, e.project_path)
                  ELSE 0
      bySession == IF byPath = 0 THEN FindTabBySession(ts, e.session_id) ELSE 0
  IN IF byPath # 0 THEN [by |-> "path", tab |-> ts[byPath]]
     ELSE IF bySession # 0 THEN [by |-> "session", tab |-> ts[bySession]]
     ELSE [by |-> "none", tab |-> NoTab]

\* The tab the listener selects for event payload e in the collection ts, and
\* the strategy that found it.
MatchTab(ts, e) ==
  LET bySession == FindTabBySession(ts, e.session_id)
      byPath == IF bySession = 0 /\ Truthy(e.project_path)
                  THEN FindTabByPath(ts, e.project_path)
                  ELSE 0
  IN IF bySession # 0 THEN [by |-> "session", tab |-> ts[bySession]]
     ELSE IF byPath # 0 THEN [by |-> "path", tab |-> ts[byPath]]
     ELSE [by |-> "none", tab |-> NoTab]

(***************************************************************************)
(* The listener: transitions and diagnostics.                              *)
(***************************************************************************)
Log(level, session_id, error) ==
  [level |-> level, session_id |-> session_id, error |-> error]

\* A listener that passes on the session id the tab already holds.
StartedCalls_KeepsTabSession(tab, e) ==
  IF tab.state # "streaming"
    THEN << Call(tab.id, TRUE, tab.session.id) >>
    ELSE <<>>

\* status === 'started'
StartedCalls(tab, e) ==
  IF tab.state # "streaming"
    THEN << Call(tab.id, TRUE, e.session_id) >>
    ELSE <<>>

\* A listener that stops the tab whatever its state.
StoppedCalls_Unguarded(tab, e) == << Call(tab.id, FALSE, Null) >>

\* A listener that leaves the tab streaming when the session failed.
StoppedCalls_UnlessError(tab, e) ==
  IF tab.state = "streaming" /\ ~Truthy(e.error)
    THEN << Call(tab.id, FALSE, Null) >>
    ELSE <<>>

\* status === 'stopped'
StoppedCalls(tab, e) ==
  IF tab.state = "streaming"
    THEN << Call(tab.id, FALSE, Null) >>
    ELSE <<>>

StoppedLogs(tab, e) ==
  IF tab.state = "streaming" /\ Truthy(e.error)
    THEN << Log("error", e.session_id, e.error) >>
    ELSE <<>>

\* A listener that drops an unmatched event silently.
NoTabLogs_Silent(e) == <<>>

\* console.warn(`[SessionSync] No tab found for session ${session_id}`)
NoTabLogs(e) == << Log("warn", e.session_id, Undefined) >>

\* A listener that updates every tab of ts that e matches by session id or by
\* project path (filter instead of find).
RECURSIVE CallsForAll(_, _, _)
CallsForAll(ts, e, i) ==
  IF i > Len(ts)
    THEN <<>>
    ELSE LET t == ts[i]
             hit == \/ t.session.id = e.session_id
                    \/ /\ Truthy(e.project_path)
                       /\ Truthy(tabProjectPath(t))
                       /\ normalizePath(tabProjectPath(t)) = normalizePath(e.project_path)
             here == IF ~hit THEN <<>>
                     ELSE IF e.status = "started" THEN StartedCalls(t, e)
                     ELSE StoppedCalls(t, e)
         IN here \o CallsForAll(ts, e, i + 1)

OnSessionState_AllMatches(ts, e) ==
  LET m == MatchTab(ts, e)
  IN [ match |-> m,
       calls |-> CallsForAll(ts, e, 1),
       logs |-> IF m.by = "none" THEN NoTabLogs(e)
                ELSE IF e.status = "stopped" THEN StoppedLogs(m.tab, e)
                ELSE <<>> ]

\* The listener applied to event payload e with tabsRef.current = ts: the tab
\* it matched, the calls of updateTabStreamingStatusRef.current it issues and
\* the console diagnostics it emits.
OnSessionState(ts, e) ==
  LET m == MatchTab(ts, e)
  IN [ match |-> m,
       calls |-> IF m.by = "none" THEN <<>>
                 ELSE IF e.status = "started" THEN StartedCalls(m.tab, e)
                 ELSE IF e.status = "stopped" THEN StoppedCalls(m.tab, e)
                 ELSE <<>>,
       logs |-> IF m.by = "none" THEN NoTabLogs(e)
                ELSE IF e.status = "stopped" THEN StoppedLogs(m.tab, e)
                ELSE <<>> ]

\* The tab collection the listener reads when an event arrives.
ListenerSnapshot == tabsRef

(***************************************************************************)
(* Initial state: the hook has rendered once, no effect has run yet.       *)
(***************************************************************************)
NoEvent ==
  [session_id |-> Null, status |-> "none", project_path |-> Undefined,
   error |-> Undefined, success |-> NoFlag]

NoMatch == [by |-> "none", tab |-> NoTab]

Init ==
  /\ tabs \in TabCollections
  /\ tabsRef = tabs               \* useRef(tabs)
  /\ updateFnRef = "f1"           \* useRef(updateTabStreamingStatus)
  /\ phase = "rendered"
  /\ listenState = "none"
  /\ unlisten = "undefined"
  /\ activeSubs = 0
  /\ listenCalls = 0
  /\ unlistenCalls = 0
  /\ setupErrors = 0
  /\ delivered = 0
  /\ lastEvent = NoEvent
  /\ lastMatch = NoMatch
  /\ lastCalls = <<>>
  /\ lastLogs = <<>>
  /\ PathParked
  /\ LoaderParked
  /\ MenuParked
  /\ ThemeParked

(***************************************************************************)
(* The subscription effect: useEffect(() => {...; setupListener(); return  *)
(* cleanup}, []).                                                          *)
(***************************************************************************)
\* A subscription effect that depends on [tabs, updateTabStreamingStatus].
SubscriptionDepsChanged_OnData == TRUE

\* Whether a re-render finds the dependencies of the subscription effect
\* changed: its dependency array is [].
SubscriptionDepsChanged == FALSE

\* The mount effects: the ref effect assigns the values of the first render,
\* which the refs already hold; setupListener() calls listen() and suspends
\* at the await.
RunEffects ==
  /\ phase = "rendered"
  /\ phase' = "mounted"
  /\ listenCalls' = listenCalls + 1
  /\ listenState' = "pending"
  /\ UNCHANGED << unlisten, activeSubs, unlistenCalls, setupErrors >>
  /\ UNCHANGED << registryVars, refVars, handledVars >>
  /\ UNCHANGED otherVars

\* listen() resolves: the subscription is active and `unlisten` is assigned.
ListenResolve ==
  /\ listenState = "pending"
  /\ listenState' = "resolved"
  /\ unlisten' = "fn"
  /\ activeSubs' = activeSubs + 1
  /\ UNCHANGED << phase, listenCalls, unlistenCalls, setupErrors >>
  /\ UNCHANGED << registryVars, refVars, handledVars >>
  /\ UNCHANGED otherVars

\* listen() rejects: the catch block logs and returns.
ListenReject ==
  /\ listenState = "pending"
  /\ listenState' = "rejected"
  /\ setupErrors' = setupErrors + 1
  /\ UNCHANGED << phase, unlisten, activeSubs, listenCalls, unlistenCalls >>
  /\ UNCHANGED << registryVars, refVars, handledVars >>
  /\ UNCHANGED otherVars

\* A cleanup that calls unlisten() without testing it.
Unmount_Unguarded ==
  /\ phase = "mounted"
  /\ phase' = "unmounted"
  /\ activeSubs' = IF unlisten = "fn" THEN activeSubs - 1 ELSE activeSubs
  /\ unlistenCalls' = unlistenCalls + 1
  /\ UNCHANGED << listenState, unlisten, listenCalls, setupErrors >>
  /\ UNCHANGED << registryVars, refVars, handledVars >>
  /\ UNCHANGED otherVars

\* The cleanup of the subscription effect: if (unlisten) unlisten().
Unmount ==
  /\ phase = "mounted"
  /\ phase' = "unmounted"
  /\ IF unlisten = "fn"
       THEN /\ activeSubs' = activeSubs - 1
            /\ unlistenCalls' = unlistenCalls + 1
       ELSE UNCHANGED << activeSubs, unlistenCalls >>
  /\ UNCHANGED << listenState, unlisten, listenCalls, setupErrors >>
  /\ UNCHANGED << registryVars, refVars, handledVars >>
  /\ UNCHANGED otherVars

(***************************************************************************)
(* A re-render of the hook, scheduled by a change of the registry, and the *)
(* effects that follow it.  useTabs() returns the registry's tabs and the  *)
(* update function fn; the ref effect's dependencies                       *)
(* [tabs, updateTabStreamingStatus] have changed, so it assigns both refs. *)
(***************************************************************************)
Rerender(fn) ==
  /\ phase = "mounted"
  /\ tabs # tabsRef \/ fn # updateFnRef
  /\ tabsRef' = tabs
  /\ updateFnRef' = fn
  /\ IF SubscriptionDepsChanged
       THEN \* cleanup of the previous run, then setupListener() again
            /\ activeSubs' = IF unlisten = "fn" THEN activeSubs - 1 ELSE activeSubs
            /\ unlistenCalls' = IF unlisten = "fn" THEN unlistenCalls + 1 ELSE unlistenCalls
            /\ unlisten' = "undefined"
            /\ listenCalls' = listenCalls + 1
            /\ listenState' = "pending"
            /\ UNCHANGED << phase, setupErrors >>
       ELSE UNCHANGED subscriptionVars
  /\ UNCHANGED << registryVars, handledVars >>
  /\ UNCHANGED otherVars

(***************************************************************************)
(* The Event Bus delivers an event to the active subscription.             *)
(***************************************************************************)
Deliver(e) ==
  /\ activeSubs > 0
  /\ delivered < MaxEvents
  /\ LET r == OnSessionState(ListenerSnapshot, e)
     IN /\ lastMatch' = r.match
        /\ lastCalls' = r.calls
        /\ lastLogs' = r.logs
        /\ tabs' = ApplyCalls(tabs, r.calls)
  /\ delivered' = delivered + 1
  /\ lastEvent' = e
  /\ UNCHANGED << refVars, subscriptionVars >>
  /\ UNCHANGED otherVars

(***************************************************************************)
(* Changes of the registry made by the rest of the UI.                     *)
(***************************************************************************)
OpenTab(t) ==
  /\ phase = "mounted"
  /\ Len(tabs) < MaxTabs
  /\ tabs' = Append(tabs, [t EXCEPT !.id = Len(tabs) + 1])
  /\ UNCHANGED << refVars, subscriptionVars, handledVars >>
  /\ UNCHANGED otherVars

Next ==
  \/ RunEffects
  \/ ListenResolve
  \/ ListenReject
  \/ Unmount
  \/ \E fn \in FnIds : Rerender(fn)
  \/ \E e \in Events : Deliver(e)
  \/ \E t \in NewTabPool : OpenTab(t)

Spec == Init /\ [][Next]_vars

\* The same surface when the backend reports the end of sessions with every
\* combination of the outcome fields.
NextOutcome ==
  \/ RunEffects
  \/ ListenResolve
  \/ ListenReject
  \/ Unmount
  \/ \E fn \in FnIds : Rerender(fn)
  \/ \E e \in OutcomeEvents : Deliver(e)
  \/ \E t \in NewTabPool : OpenTab(t)

SpecOutcome == Init /\ [][NextOutcome]_vars

\* The variables of part 1 while another part runs: no tab, nothing mounted.
SyncParked ==
  /\ tabs = <<>>
  /\ tabsRef = <<>>
  /\ updateFnRef = "f1"
  /\ phase = "parked"
  /\ listenState = "none"
  /\ unlisten = "undefined"
  /\ activeSubs = 0
  /\ listenCalls = 0
  /\ unlistenCalls = 0
  /\ setupErrors = 0
  /\ delivered = 0
  /\ lastEvent = NoEvent
  /\ lastMatch = NoMatch
  /\ lastCalls = <<>>
  /\ lastLogs = <<>>

(***************************************************************************)
(* Part 2.  normalizePath on pairs of project paths, and the match of an   *)
(* event that carries one path to a tab that holds the other.              *)
(***************************************************************************)
\* The characters of the paths: a letter in both cases and both separators.
PathChars == { "A", "a", "\\", "/" }

Paths == UNION { [1..n -> PathChars] : n \in 0..MaxPathLen }

\* A `started` event of a session no tab holds, with the given project_path.
PathEvent(project_path) ==
  [session_id |-> "s1", status |-> "started", project_path |-> project_path,
   error |-> Undefined, success |-> NoFlag]

InitPath ==
  /\ pathStage = "input"
  /\ tabPath \in Paths
  /\ eventPath \in Paths
  /\ normTab = <<>>
  /\ normEvent = <<>>
  /\ normAgain = <<>>
  /\ matchedBy = "none"
  /\ SyncParked
  /\ LoaderParked
  /\ MenuParked
  /\ ThemeParked

\* The listener normalizes both paths to compare them (lines 57-62).
NormalizePaths ==
  /\ pathStage = "input"
  /\ pathStage' = "normalized"
  /\ normTab' = normalizePath(tabPath)
  /\ normEvent' = normalizePath(eventPath)
  /\ matchedBy' =
       MatchTab(<< Tab(1, "idle", NoSession, tabPath) >>, PathEvent(eventPath)).by
  /\ UNCHANGED << tabPath, eventPath, normAgain >>
  /\ UNCHANGED << syncVars, loaderVars, menuVars, themeVars >>

\* normalizePath applied to a path that is already normalized.
NormalizeAgain ==
  /\ pathStage = "normalized"
  /\ pathStage' = "renormalized"
  /\ normAgain' = normalizePath(normTab)
  /\ UNCHANGED << tabPath, eventPath, normTab, normEvent, matchedBy >>
  /\ UNCHANGED << syncVars, loaderVars, menuVars, themeVars >>

NextPath ==
  \/ NormalizePaths
  \/ NormalizeAgain

SpecPath == InitPath /\ [][NextPath]_vars

(***************************************************************************)
(* Part 3.  useCustomSlashCommands({projectPath, enabled, engine}).        *)
(***************************************************************************)
Engines == { "claude", "gemini", "codex" }
ProjectDirs == { "p1", "p2" }

\* What the backend lists for an engine and a project: a user command of
\* the engine and a project command of the project.
\* (`description: string | null`: null is a one-element tuple holding a token
\* that is no character.)
NullText == << "null" >>

BackendCommands(engine, path) ==
  << [name |-> engine, scope |-> "user", description |-> NullText],
     [name |-> path, scope |-> "project", description |-> << "d" >>] >>

\* The messages invoke() rejects with.
MsgNotFound == << "x", " ", "n", "o", "t", " ", "f", "o", "u", "n", "d" >>
MsgUnknown == << "U", "n", "k", "n", "o", "w", "n", " ", "c", "o", "m", "m", "a", "n", "d", ":", " ", "x" >>
MsgFailed == << "b", "o", "o", "m" >>
Messages == { MsgNotFound, MsgUnknown, MsgFailed }

\* The values invoke() rejects with: an Error with a message, or a string.
Rejections == [ isError : BOOLEAN, text : Messages ]

\* err instanceof Error ? err.message : String(err)
ErrorMessageOf(err) == err.text

\* String.prototype.includes
Includes(text, needle) ==
  \E i \in 0..(Len(text) - Len(needle)) :
    SubSeq(text, i + 1, i + Len(needle)) = needle

NeedleNotFound == << "n", "o", "t", " ", "f", "o", "u", "n", "d" >>
NeedleUnknown == << "U", "n", "k", "n", "o", "w", "n", " ", "c", "o", "m", "m", "a", "n", "d" >>

\* errorMessage.includes('not found') || errorMessage.includes('Unknown command')
IsBackendMissing(message) ==
  Includes(message, NeedleNotFound) \/ Includes(message, NeedleUnknown)

\* getBackendCommand(eng)
getBackendCommand(eng) ==
  IF eng = "gemini"
    THEN "list_gemini_custom_slash_commands"
    ELSE "list_custom_slash_commands"

\* The useMemo that converts the raw commands to SlashCommand.
customCommands(raw) ==
  [ i \in 1..Len(raw) |->
      [ name |-> raw[i].name,
        description |-> IF raw[i].description # NullText /\ raw[i].description # <<>>
                          THEN raw[i].description
                          ELSE << "Custom command: ", raw[i].name >>,
        source |-> IF raw[i].scope = "project" THEN "project" ELSE "user",
        category |-> "custom",
        supportsNonInteractive |-> TRUE ] ]

\* The invoke() calls loadCommands() can issue.
Requests ==
  { [id |-> i, engine |-> g, path |-> d, command |-> getBackendCommand(g)] :
      i \in 1..MaxLoads, g \in Engines \ {"codex"}, d \in ProjectDirs }

\* loadCommands() under the options (enabled, engine, path): the synchronous
\* part, up to the await of invoke().
loadCommands(enabled, engine, path) ==
  /\ loadCalls < MaxLoads
  /\ loadCalls' = loadCalls + 1
  /\ IF ~enabled \/ engine = "codex"
       THEN /\ rawCommands' = <<>>
            /\ lastLoad' = [kind |-> "skipped", id |-> loadCalls + 1]
            /\ UNCHANGED << isLoading, loadError, inFlight, backendCalls >>
       ELSE /\ isLoading' = TRUE
            /\ loadError' = Null
            /\ inFlight' = inFlight \cup
                 { [id |-> loadCalls + 1, engine |-> engine, path |-> path,
                    command |-> getBackendCommand(engine)] }
            /\ backendCalls' = backendCalls + 1
            /\ lastLoad' = [kind |-> "request", id |-> loadCalls + 1]
            /\ UNCHANGED rawCommands
  /\ latestOutcome' = NoOutcome
  /\ UNCHANGED << settled, lastSettled, uncaught >>

InitLoader ==
  /\ loaderStage = "rendered"
  /\ optEnabled \in BOOLEAN
  /\ optEngine \in Engines
  /\ optPath \in ProjectDirs
  /\ rawCommands = <<>>
  /\ isLoading = FALSE
  /\ loadError = Null
  /\ inFlight = {}
  /\ loadCalls = 0
  /\ backendCalls = 0
  /\ lastLoad = NoLoad
  /\ settled = 0
  /\ lastSettled = NoSettled
  /\ latestOutcome = NoOutcome
  /\ uncaught = 0
  /\ SyncParked
  /\ PathParked
  /\ MenuParked
  /\ ThemeParked

\* The mount effect: useEffect(() => { loadCommands(); }, [loadCommands]).
LoaderMount ==
  /\ loaderStage = "rendered"
  /\ loaderStage' = "mounted"
  /\ loadCommands(optEnabled, optEngine, optPath)
  /\ UNCHANGED << optEnabled, optEngine, optPath >>
  /\ UNCHANGED << syncVars, pathVars, menuVars, themeVars >>

\* The hook is rendered with other options: loadCommands is a new callback
\* (its dependencies changed) and the effect calls it.
ChangeOptions(enabled, engine, path) ==
  /\ loaderStage = "mounted"
  /\ << enabled, engine, path >> # << optEnabled, optEngine, optPath >>
  /\ optEnabled' = enabled
  /\ optEngine' = engine
  /\ optPath' = path
  /\ loadCommands(enabled, engine, path)
  /\ UNCHANGED loaderStage
  /\ UNCHANGED << syncVars, pathVars, menuVars, themeVars >>

\* refresh(): the caller runs loadCommands() again.
Refresh ==
  /\ loaderStage = "mounted"
  /\ loadCommands(optEnabled, optEngine, optPath)
  /\ UNCHANGED << loaderStage, optEnabled, optEngine, optPath >>
  /\ UNCHANGED << syncVars, pathVars, menuVars, themeVars >>

\* invoke() resolves with the commands: setRawCommands(commands), and then
\* the finally block.
BackendResolve(req, none) ==
  /\ req \in inFlight
  /\ inFlight' = inFlight \ {req}
  /\ LET commands == IF none THEN <<>> ELSE BackendCommands(req.engine, req.path)
     IN /\ rawCommands' = commands
        /\ latestOutcome' =
             IF req.id = lastLoad.id
               THEN [known |-> TRUE, commands |-> commands, error |-> Null]
               ELSE latestOutcome
  /\ isLoading' = FALSE
  /\ settled' = settled + 1
  /\ lastSettled' = [id |-> req.id, kind |-> "resolved", message |-> <<>>]
  /\ UNCHANGED << loaderStage, optEnabled, optEngine, optPath, loadError,
                  loadCalls, backendCalls, lastLoad, uncaught >>
  /\ UNCHANGED << syncVars, pathVars, menuVars, themeVars >>

\* invoke() rejects: the catch block, and then the finally block.
BackendReject(req, err) ==
  /\ req \in inFlight
  /\ inFlight' = inFlight \ {req}
  /\ LET errorMessage == ErrorMessageOf(err)
     IN /\ IF IsBackendMissing(errorMessage)
             THEN /\ rawCommands' = <<>>
                  /\ UNCHANGED loadError
             ELSE /\ loadError' = errorMessage
                  /\ rawCommands' = <<>>
        /\ lastSettled' = [id |-> req.id, kind |-> "rejected", message |-> errorMessage]
        /\ latestOutcome' =
             IF req.id = lastLoad.id
               THEN [known |-> TRUE, commands |-> <<>>,
                     error |-> IF IsBackendMissing(errorMessage)
                                 THEN Null ELSE errorMessage]
               ELSE latestOutcome
  /\ isLoading' = FALSE
  /\ settled' = settled + 1
  /\ UNCHANGED << loaderStage, optEnabled, optEngine, optPath,
                  loadCalls, backendCalls, lastLoad, uncaught >>
  /\ UNCHANGED << syncVars, pathVars, menuVars, themeVars >>

NextLoader ==
  \/ LoaderMount
  \/ \E enabled \in BOOLEAN, engine \in Engines, path \in ProjectDirs :
       ChangeOptions(enabled, engine, path)
  \/ Refresh
  \/ \E req \in Requests, none \in BOOLEAN : BackendResolve(req, none)
  \/ \E req \in Requests, err \in Rejections : BackendReject(req, err)

SpecLoader == InitLoader /\ [][NextLoader]_vars

(***************************************************************************)
(* Part 4.  useSlashCommandMenu({prompt, onCommandSelect, customCommands,  *)
(* disabled, engine}).                                                     *)
(***************************************************************************)
\* The characters of the prompts: the slash, the space and a letter.
PromptChars == { "/", " ", "c" }

Command(name, supportsNonInteractive) ==
  [name |-> name, supportsNonInteractive |-> supportsNonInteractive]

GEMINI_BUILT_IN_SLASH_COMMANDS ==
  << Command(<< "c", "l", "e", "a", "r" >>, FALSE),
     Command(<< "c", "o", "m", "p", "a", "c", "t" >>, TRUE),
     Command(<< "s", "a", "v", "e" >>, FALSE),
     Command(<< "l", "o", "a", "d" >>, FALSE),
     Command(<< "s", "t", "a", "t", "s" >>, TRUE),
     Command(<< "c", "o", "n", "t", "e", "x", "t" >>, TRUE),
     Command(<< "h", "e", "l", "p" >>, FALSE),
     Command(<< "s", "e", "t", "t", "i", "n", "g", "s" >>, FALSE),
     Command(<< "m", "o", "d", "e", "l" >>, FALSE),
     Command(<< "t", "o", "o", "l", "s" >>, FALSE),
     Command(<< "e", "x", "t", "e", "n", "s", "i", "o", "n", "s" >>, FALSE),
     Command(<< "m", "c", "p" >>, FALSE),
     Command(<< "i", "n", "i", "t" >>, TRUE),
     Command(<< "m", "e", "m", "o", "r", "y" >>, FALSE),
     Command(<< "q", "u", "i", "t" >>, FALSE),
     Command(<< "v", "e", "r", "s", "i", "o", "n" >>, TRUE) >>

\* The catalog of Claude (../slashCommands): commands of both kinds.
BUILT_IN_SLASH_COMMANDS ==
  << Command(<< "c", "l", "e", "a", "r" >>, FALSE),
     Command(<< "c", "o", "m", "p", "a", "c", "t" >>, TRUE),
     Command(<< "c", "o", "s", "t" >>, TRUE) >>

\* The customCommands the caller passes: what useCustomSlashCommands
\* converted, all of them supporting the non-interactive mode.
CustomLists ==
  { <<>>,
    << Command(<< "c", "c" >>, TRUE) >> }

IsWhitespace(c) == c = " "

\* String.prototype.trim
RECURSIVE TrimStart(_)
TrimStart(text) ==
  IF Len(text) > 0 /\ IsWhitespace(text[1])
    THEN TrimStart(Tail(text))
    ELSE text

RECURSIVE TrimEnd(_)
TrimEnd(text) ==
  IF Len(text) > 0 /\ IsWhitespace(text[Len(text)])
    THEN TrimEnd(SubSeq(text, 1, Len(text) - 1))
    ELSE text

Trim(text) == TrimEnd(TrimStart(text))

\* String.prototype.startsWith
StartsWith(text, prefix) ==
  /\ Len(prefix) <= Len(text)
  /\ SubSeq(text, 1, Len(prefix)) = prefix

\* String.prototype.indexOf for one character: the 0-based index of its
\* first occurrence, or -1.
IndexOf(text, c) ==
  LET hits == { i \in 1..Len(text) : text[i] = c }
  IN IF hits = {} THEN -1
     ELSE (CHOOSE i \in hits : \A j \in hits : i <= j) - 1

detectSlashCommand(text) ==
  LET trimmed == Trim(text)
      firstSpaceIndex == IndexOf(trimmed, " ")
  IN IF ~StartsWith(trimmed, << "/" >>)
       THEN [isSlashCommand |-> FALSE, query |-> <<>>]
     ELSE IF firstSpaceIndex > 0
       THEN [isSlashCommand |-> FALSE, query |-> <<>>]
     ELSE [isSlashCommand |-> TRUE, query |-> Tail(trimmed)]

\* The useMemo over [prompt, disabled].
Detected(p, disabled) ==
  IF disabled
    THEN [isSlashCommand |-> FALSE, query |-> <<>>]
    ELSE detectSlashCommand(p)

\* The useMemo over [engine].
builtInCommands(engine) ==
  CASE engine = "gemini" -> GEMINI_BUILT_IN_SLASH_COMMANDS
    [] engine = "claude" -> BUILT_IN_SLASH_COMMANDS
    [] engine = "codex" -> <<>>
    [] OTHER -> BUILT_IN_SLASH_COMMANDS

allCommands(engine, custom) == builtInCommands(engine) \o custom

\* filterSlashCommands(commands, query, nonInteractiveOnly) of
\* ../slashCommands: the commands whose name starts with the query, in
\* the order of the list, without those that need the interactive mode.
filterSlashCommands(commands, q, nonInteractiveOnly) ==
  SelectSeq(commands,
            LAMBDA c : /\ nonInteractiveOnly => c.supportsNonInteractive
                       /\ StartsWith(c.name, q))

filteredCommandsOf(p, disabled, engine, custom) ==
  filterSlashCommands(allCommands(engine, custom), Detected(p, disabled).query, TRUE)

isOpenOf(p, disabled, engine, custom, closed) ==
  /\ Detected(p, disabled).isSlashCommand
  /\ ~closed
  /\ Len(filteredCommandsOf(p, disabled, engine, custom)) > 0

\* The values of the current render.
query == Detected(prompt, menuDisabled).query
filteredCommands == filteredCommandsOf(prompt, menuDisabled, menuEngine, menuCustom)
isOpen == isOpenOf(prompt, menuDisabled, menuEngine, menuCustom, isManuallyClose)

InitMenu ==
  /\ prompt = <<>>
  /\ menuDisabled \in BOOLEAN
  /\ menuEngine \in Engines
  /\ menuCustom \in CustomLists
  /\ selectedIndex = 0
  /\ isManuallyClose = FALSE
  /\ lastAction = NoAction
  /\ SyncParked
  /\ PathParked
  /\ LoaderParked
  /\ ThemeParked

\* A prompt effect that resets the flag on every change of the prompt.
PromptEffectResets_Always(p) == TRUE

\* useEffect(() => { if (!prompt.trim()) setIsManuallyClose(false) }, [prompt])
PromptEffectResets(p) == Trim(p) = <<>>

\* The hook is rendered with the prompt p and disabled = d, and its effects
\* run: the effect of [query], when the query changed, and the effect of
\* [prompt], when the prompt changed.
Render(p, d) ==
  LET queryChanged == Detected(p, d).query # query
      promptChanged == p # prompt
  IN /\ prompt' = p
     /\ menuDisabled' = d
     /\ selectedIndex' = IF queryChanged THEN 0 ELSE selectedIndex
     /\ isManuallyClose' =
          IF queryChanged \/ (promptChanged /\ PromptEffectResets(p))
            THEN FALSE
            ELSE isManuallyClose

\* The caller renders the hook with another prompt.
SetPrompt(p) ==
  /\ p # prompt
  /\ Render(p, menuDisabled)
  /\ lastAction' = NoAction
  /\ UNCHANGED << menuEngine, menuCustom >>
  /\ UNCHANGED << syncVars, pathVars, loaderVars, themeVars >>

\* The user types a character at the end of the prompt.
TypeChar(c) ==
  /\ Len(prompt) < MaxPromptLen
  /\ SetPrompt(Append(prompt, c))

\* The user deletes the last character of the prompt.
Backspace ==
  /\ Len(prompt) > 0
  /\ SetPrompt(SubSeq(prompt, 1, Len(prompt) - 1))

\* The prompt is sent and the input cleared.
ClearPrompt ==
  /\ Len(prompt) > 0
  /\ SetPrompt(<<>>)

SetDisabled(d) ==
  /\ d # menuDisabled
  /\ Render(prompt, d)
  /\ lastAction' = NoAction
  /\ UNCHANGED << menuEngine, menuCustom >>
  /\ UNCHANGED << syncVars, pathVars, loaderVars, themeVars >>

\* The engine or the custom commands change: builtInCommands, allCommands
\* and filteredCommands are computed again; no effect runs.
SetCommands(engine, custom) ==
  /\ << engine, custom >> # << menuEngine, menuCustom >>
  /\ menuEngine' = engine
  /\ menuCustom' = custom
  /\ lastAction' = NoAction
  /\ UNCHANGED << prompt, menuDisabled, selectedIndex, isManuallyClose >>
  /\ UNCHANGED << syncVars, pathVars, loaderVars, themeVars >>

\* selectCommand(command): what it passes to onCommandSelect.
selectCommand(command) == << << "/" >> \o command.name >>

Keys == { "ArrowUp", "ArrowDown", "Enter", "Tab", "Escape", "a" }

\* handleKeyDown(e): the value it returns, the state it sets and the
\* arguments it passes to onCommandSelect.
handleKeyDown(key) ==
  LET stay == [returned |-> FALSE, selectedIndex |-> selectedIndex,
               isManuallyClose |-> isManuallyClose, selected |-> <<>>]
      n == Len(filteredCommands)
  IN IF ~isOpen THEN stay
     ELSE CASE key = "ArrowUp" ->
                 [stay EXCEPT !.returned = TRUE,
                              !.selectedIndex =
                                 IF selectedIndex > 0 THEN selectedIndex - 1 ELSE n - 1]
            [] key = "ArrowDown" ->
                 [stay EXCEPT !.returned = TRUE,
                              !.selectedIndex =
                                 IF selectedIndex < n - 1 THEN selectedIndex + 1 ELSE 0]
            [] key \in {"Enter", "Tab"} ->
                 IF selectedIndex \in 0..(n - 1)
                   THEN [stay EXCEPT !.returned = TRUE,
                                     !.isManuallyClose = TRUE,
                                     !.selected =
                                        selectCommand(filteredCommands[selectedIndex + 1])]
                   ELSE stay
            [] key = "Escape" ->
                 [stay EXCEPT !.returned = TRUE, !.isManuallyClose = TRUE]
            [] OTHER -> stay

\* The input's onKeyDown calls handleKeyDown.
KeyDown(key) ==
  LET r == handleKeyDown(key)
  IN /\ selectedIndex' = r.selectedIndex
     /\ isManuallyClose' = r.isManuallyClose
     /\ lastAction' = [kind |-> key, returned |-> r.returned,
                       selected |-> r.selected]
     /\ UNCHANGED << prompt, menuDisabled, menuEngine, menuCustom >>
     /\ UNCHANGED << syncVars, pathVars, loaderVars, themeVars >>

\* The user clicks item i of the open menu: selectCommand(filteredCommands[i]).
ClickCommand(i) ==
  /\ isOpen
  /\ i \in 0..(Len(filteredCommands) - 1)
  /\ isManuallyClose' = TRUE
  /\ lastAction' = [kind |-> "selectCommand", returned |-> FALSE,
                    selected |-> selectCommand(filteredCommands[i + 1])]
  /\ UNCHANGED << prompt, menuDisabled, menuEngine, menuCustom, selectedIndex >>
  /\ UNCHANGED << syncVars, pathVars, loaderVars, themeVars >>

\* closeMenu()
CloseMenu ==
  /\ isManuallyClose' = TRUE
  /\ lastAction' = [NoAction EXCEPT !.kind = "closeMenu"]
  /\ UNCHANGED << prompt, menuDisabled, menuEngine, menuCustom, selectedIndex >>
  /\ UNCHANGED << syncVars, pathVars, loaderVars, themeVars >>

\* The pointer moves over item i of the open menu: setSelectedIndex(i).
HoverCommand(i) ==
  /\ isOpen
  /\ i \in 0..(Len(filteredCommands) - 1)
  /\ i # selectedIndex
  /\ selectedIndex' = i
  /\ lastAction' = NoAction
  /\ UNCHANGED << prompt, menuDisabled, menuEngine, menuCustom, isManuallyClose >>
  /\ UNCHANGED << syncVars, pathVars, loaderVars, themeVars >>

\* The indexes of the longest list the menu shows.
MenuIndexes == 0..(Len(GEMINI_BUILT_IN_SLASH_COMMANDS) + 1)

NextMenu ==
  \/ \E c \in PromptChars : TypeChar(c)
  \/ Backspace
  \/ ClearPrompt
  \/ \E d \in BOOLEAN : SetDisabled(d)
  \/ \E engine \in Engines, custom \in CustomLists : SetCommands(engine, custom)
  \/ \E key \in Keys : KeyDown(key)
  \/ \E i \in MenuIndexes : ClickCommand(i)
  \/ CloseMenu
  \/ \E i \in MenuIndexes : HoverCommand(i)

SpecMenu == InitMenu /\ [][NextMenu]_vars

(***************************************************************************)
(* Part 5.  ThemeProvider: the theme, localStorage, the document element   *)
(* and the title bar.                                                      *)
(***************************************************************************)
Themes == { "light", "dark" }

\* What localStorage holds under 'theme' when the provider mounts: nothing,
\* the empty string, or a theme the provider stored earlier.
StoredValues == { NoItem, "", "light", "dark" }

\* The classes of the document element when the provider mounts: the
\* page's own class, alone or with a theme class.
InitialClasses == { {"app"}, {"app", "dark"} }

\* JavaScript truthiness of getItem's result: neither null nor ''.
TruthyItem(v) == v # NoItem /\ v # ""

\* toggleTheme: prev => prev === 'light' ? 'dark' : 'light'
toggleTheme(prev) == IF prev = "light" THEN "dark" ELSE "light"

\* An effect of [theme] that adds the class of the theme without removing
\* the other one.
ApplyToDocument_AddOnly(t, ok) ==
  /\ rootClasses' = rootClasses \cup {t}
  /\ colorMode' = t
  /\ storedTheme' = t
  /\ titlebarTheme' = (IF t = "dark" THEN "dark" ELSE "light")
  /\ titlebarWarned' = ~ok

\* The body of the effect of [theme] for the theme t; ok: whether the
\* invoke() of set_titlebar_theme resolves.
ApplyToDocument(t, ok) ==
  /\ rootClasses' = (rootClasses \ {"light", "dark"}) \cup {t}
  /\ colorMode' = t
  /\ storedTheme' = t
  /\ titlebarTheme' = (IF t = "dark" THEN "dark" ELSE "light")
  /\ titlebarWarned' = ~ok

InitTheme ==
  /\ theme = "light"
  /\ themeStage = "rendered"
  /\ storedTheme \in StoredValues
  /\ rootClasses \in InitialClasses
  /\ colorMode = "none"
  /\ titlebarTheme = "none"
  /\ titlebarWarned = FALSE
  /\ storedAtMount = storedTheme
  /\ themeCall = "none"
  /\ themeBefore = "light"
  /\ SyncParked
  /\ PathParked
  /\ LoaderParked
  /\ MenuParked

\* The effects of the first render, in their order: the mount effect reads
\* localStorage and calls setTheme(savedTheme); the effect of [theme] runs
\* with the theme of the first render, 'light'.  The provider is rendered
\* again when setTheme changed the state.
ThemeMount(ok) ==
  /\ themeStage = "rendered"
  /\ LET savedTheme == storedTheme
         next == IF TruthyItem(savedTheme) THEN savedTheme ELSE theme
     IN /\ theme' = next
        /\ themeStage' = IF next # theme THEN "pending" ELSE "applied"
  /\ ApplyToDocument(theme, ok)
  /\ UNCHANGED << storedAtMount, themeCall, themeBefore >>
  /\ UNCHANGED << syncVars, pathVars, loaderVars, menuVars >>

\* The effect of [theme] after a render with a changed theme.
ThemeEffect(ok) ==
  /\ themeStage = "pending"
  /\ themeStage' = "applied"
  /\ ApplyToDocument(theme, ok)
  /\ UNCHANGED << theme, storedAtMount, themeCall, themeBefore >>
  /\ UNCHANGED << syncVars, pathVars, loaderVars, menuVars >>

\* A consumer of the context calls setTheme(t).
SetTheme(t) ==
  /\ themeStage \in {"pending", "applied"}
  /\ theme' = t
  /\ themeStage' = IF t # theme THEN "pending" ELSE themeStage
  /\ themeCall' = "setTheme"
  /\ themeBefore' = theme
  /\ UNCHANGED << storedTheme, rootClasses, colorMode, titlebarTheme,
                  titlebarWarned, storedAtMount >>
  /\ UNCHANGED << syncVars, pathVars, loaderVars, menuVars >>

\* A consumer of the context calls toggleTheme().
ToggleTheme ==
  /\ themeStage \in {"pending", "applied"}
  /\ theme' = toggleTheme(theme)
  /\ themeStage' = "pending"
  /\ themeCall' = "toggleTheme"
  /\ themeBefore' = theme
  /\ UNCHANGED << storedTheme, rootClasses, colorMode, titlebarTheme,
                  titlebarWarned, storedAtMount >>
  /\ UNCHANGED << syncVars, pathVars, loaderVars, menuVars >>

NextTheme ==
  \/ \E ok \in BOOLEAN : ThemeMount(ok)
  \/ \E ok \in BOOLEAN : ThemeEffect(ok)
  \/ \E t \in Themes : SetTheme(t)
  \/ ToggleTheme

SpecTheme == InitTheme /\ [][NextTheme]_vars

(***************************************************************************)
(* Vocabulary of the claims: what it means for a tab to match an event,    *)
(* stated on the tabs and the payload alone.                               *)
(***************************************************************************)
\* The tab's session id is the event's session id.
SessionMatches(t, e) == t.session.id = e.session_id

\* The tab's project path: its own, or, if it has none, its session's.
ProjectPathOf(t) ==
  IF t.projectPath # Undefined /\ t.projectPath # <<>>
    THEN t.projectPath
    ELSE t.session.project_path

HasProjectPath(t) == ProjectPathOf(t) # Undefined /\ ProjectPathOf(t) # <<>>

\* The event carries a non-empty project path and the tab's project path
\* normalizes to the same value.
PathMatches(t, e) ==
  /\ e.project_path # Undefined
  /\ e.project_path # <<>>
  /\ HasProjectPath(t)
  /\ normalizePath(ProjectPathOf(t)) = normalizePath(e.project_path)

\* Tab i of ts is the tab matched for e: the first tab with the event's session
\* id, or, when no tab has that session id, the first tab that matches by
\* project path.
IsMatched(ts, i, e) ==
  \/ /\ SessionMatches(ts[i], e)
     /\ \A j \in 1..(i - 1) : ~SessionMatches(ts[j], e)
  \/ /\ \A j \in 1..Len(ts) : ~SessionMatches(ts[j], e)
     /\ PathMatches(ts[i], e)
     /\ \A j \in 1..(i - 1) : ~PathMatches(ts[j], e)

\* This step is the listener handling an event (the action Deliver); the
\* payload it handles is lastEvent'.
Handled == delivered' = delivered + 1

\* The tab of the registry with the given id is in the given state with the
\* given session id.
RegistryTabIs(ts, id, state, sessionId) ==
  \E k \in 1..Len(ts) :
    /\ ts[k].id = id
    /\ ts[k].state = state
    /\ ts[k].session.id = sessionId

(***************************************************************************)
(* C1.  Started transition: whenever the listener handles a `started`      *)
(* event E and the tab matched for E in the collection it reads is not     *)
(* 'streaming', it issues exactly updateTabStreamingStatus(tab.id, true,   *)
(* E.session_id), after which that tab is 'streaming' with session id      *)
(* E.session_id in the registry.                                           *)
(***************************************************************************)
C1_StartedTransition ==
  [][LET e == lastEvent' IN
       (Handled /\ e.status = "started") =>
         \A i \in 1..Len(tabsRef) :
           (IsMatched(tabsRef, i, e) /\ tabsRef[i].state # "streaming") =>
             /\ lastCalls' = << Call(tabsRef[i].id, TRUE, e.session_id) >>
             /\ RegistryTabIs(tabs', tabsRef[i].id, "streaming", e.session_id)]_vars

\* A `started` event has moved an idle tab, found through its project path,
\* to 'streaming' under the event's session id.
C1_Witness ==
  /\ lastEvent.status = "started"
  /\ lastMatch.by = "path"
  /\ lastMatch.tab.state = "idle"
  /\ lastMatch.tab.session.id = Null
  /\ lastCalls = << Call(lastMatch.tab.id, TRUE, lastEvent.session_id) >>
  /\ RegistryTabIs(tabs, lastMatch.tab.id, "streaming", lastEvent.session_id)

(***************************************************************************)
(* C2.  Stopped transition: whenever the listener handles a `stopped`      *)
(* event E, if the tab matched for E is 'streaming' it issues exactly      *)
(* updateTabStreamingStatus(tab.id, false, null) and the tab becomes idle  *)
(* with session id null; if the matched tab is not 'streaming' it issues   *)
(* no call and every tab of the registry is unchanged.                     *)
(***************************************************************************)
C2_StoppedTransition ==
  [][LET e == lastEvent' IN
       (Handled /\ e.status = "stopped") =>
         \A i \in 1..Len(tabsRef) :
           IsMatched(tabsRef, i, e) =>
             IF tabsRef[i].state = "streaming"
               THEN /\ lastCalls' = << Call(tabsRef[i].id, FALSE, Null) >>
                    /\ RegistryTabIs(tabs', tabsRef[i].id, "idle", Null)
               ELSE /\ lastCalls' = <<>>
                    /\ tabs' = tabs]_vars

\* A `stopped` event has returned a streaming tab to idle and cleared its
\* session id.
C2_Witness ==
  /\ lastEvent.status = "stopped"
  /\ lastMatch.by = "session"
  /\ lastMatch.tab.state = "streaming"
  /\ lastCalls = << Call(lastMatch.tab.id, FALSE, Null) >>
  /\ RegistryTabIs(tabs, lastMatch.tab.id, "idle", Null)

(***************************************************************************)
(* C3.  Subscription release on teardown: once the surface is torn down,   *)
(* no subscription to 'claude-session-state' is active, whatever the order *)
(* of mount, resolution of listen() and unmount.                           *)
(***************************************************************************)
C3_ReleasedOnTeardown == phase = "unmounted" => activeSubs = 0

(***************************************************************************)
(* C4.  Fresh snapshot: an event delivered right after an event that       *)
(* mutated the registry is matched and handled against the registry's tab  *)
(* collection as it is at delivery time, also when the ref effect has not  *)
(* run between the two.                                                    *)
(***************************************************************************)
C4_FreshSnapshot ==
  [][LET e == lastEvent' IN
       ( /\ Handled
         /\ lastCalls # <<>>
         /\ tabs = ApplyCalls(tabsRef, lastCalls) ) =>
           /\ lastMatch' = MatchTab(tabs, e)
           /\ lastCalls' = OnSessionState(tabs, e).calls]_vars

(***************************************************************************)
(* C5.  Started idempotence: delivering the `started` event that was       *)
(* delivered last a second time, when the tab it matches is already        *)
(* 'streaming', issues no further call of updateTabStreamingStatus.        *)
(***************************************************************************)
C5_StartedIdempotent ==
  [][LET e == lastEvent' IN
       ( /\ Handled
         /\ e.status = "started"
         /\ e = lastEvent
         /\ \E i \in 1..Len(tabs) :
              IsMatched(tabs, i, e) /\ tabs[i].state = "streaming" ) =>
           lastCalls' = <<>>]_vars

(***************************************************************************)
(* C6.  Session lifecycle across two events: after a `started` event for   *)
(* session s was matched, through the project path only, to a tab without  *)
(* session id, the next event, if it is a `stopped` event of session s     *)
(* (with or without project_path or error), returns that same tab to idle  *)
(* with session id null.                                                   *)
(***************************************************************************)
C6_StartThenStop ==
  [][LET e == lastEvent' IN
       ( /\ Handled
         /\ e.status = "stopped"
         /\ lastEvent.status = "started"
         /\ lastEvent.session_id = e.session_id
         /\ lastMatch.by = "path"
         /\ lastMatch.tab.session.id = Null ) =>
           /\ lastMatch'.tab.id = lastMatch.tab.id
           /\ RegistryTabIs(tabs', lastMatch.tab.id, "idle", Null)]_vars

(***************************************************************************)
(* C7.  Matching precedence: for every event the listener selects the      *)
(* first tab whose session id is the event's, whenever there is one,       *)
(* whatever the tab order and whatever other tab matches by path; it tries *)
(* the project path only when no tab has the session id and the event      *)
(* carries a non-empty project_path, and then selects the first tab whose  *)
(* project path normalizes to the event's; otherwise it selects no tab.    *)
(***************************************************************************)
C7_MatchingPrecedence ==
  [][LET e == lastEvent' IN
       Handled =>
         LET ts == tabsRef
             withSession == { i \in 1..Len(ts) : SessionMatches(ts[i], e) }
             withPath == { i \in 1..Len(ts) : PathMatches(ts[i], e) }
         IN IF withSession # {}
              THEN /\ lastMatch'.by = "session"
                   /\ \E i \in withSession :
                        /\ lastMatch'.tab = ts[i]
                        /\ \A j \in withSession : i <= j
            ELSE IF withPath # {}
              THEN /\ lastMatch'.by = "path"
                   /\ \E i \in withPath :
                        /\ lastMatch'.tab = ts[i]
                        /\ \A j \in withPath : i <= j
            ELSE lastMatch' = NoMatch]_vars

\* The listener has selected a tab by session id although an earlier tab of
\* the collection matches the event by project path.
C7_Witness ==
  /\ lastMatch.by = "session"
  /\ lastMatch.tab.id <= Len(tabsRef)
  /\ tabsRef[lastMatch.tab.id] = lastMatch.tab
  /\ \E j \in 1..(lastMatch.tab.id - 1) : PathMatches(tabsRef[j], lastEvent)

(***************************************************************************)
(* C8.  At most one mutation per event: handling one event issues at most  *)
(* one call of the registry's update operation, and one `started` event    *)
(* moves at most one tab to 'streaming'.                                   *)
(***************************************************************************)
C8_AtMostOneMutation ==
  [][LET e == lastEvent' IN
       Handled =>
         /\ Len(lastCalls') <= 1
         /\ Cardinality({ i \in 1..Len(tabs) :
                            /\ tabs[i].state # "streaming"
                            /\ tabs'[i].state = "streaming" }) <= 1
         /\ Cardinality({ i \in 1..Len(tabs) : tabs'[i] # tabs[i] }) <= 1]_vars

\* A `started` event whose project path two non-streaming tabs share has
\* issued one call.
C8_Witness ==
  /\ lastEvent.status = "started"
  /\ lastMatch.by = "path"
  /\ Len(lastCalls) = 1
  /\ \E i, j \in 1..Len(tabsRef) :
       /\ i # j
       /\ tabsRef[i] = lastMatch.tab
       /\ PathMatches(tabsRef[j], lastEvent)
       /\ tabsRef[j].state # "streaming"

(***************************************************************************)
(* C9.  No-match case: an event whose session id is no tab's session id    *)
(* and whose project path, if it carries one, normalizes to no tab's       *)
(* project path issues no call, leaves every tab unchanged and emits       *)
(* exactly one warning, naming the session id.                             *)
(***************************************************************************)
C9_NoMatch ==
  [][LET e == lastEvent' IN
       ( /\ Handled
         /\ \A i \in 1..Len(tabsRef) : ~SessionMatches(tabsRef[i], e)
         /\ e.project_path # Undefined =>
              \A i \in 1..Len(tabsRef) :
                HasProjectPath(tabsRef[i]) =>
                  normalizePath(ProjectPathOf(tabsRef[i])) # normalizePath(e.project_path) ) =>
           /\ lastCalls' = <<>>
           /\ tabs' = tabs
           /\ lastLogs' = << Log("warn", e.session_id, Undefined) >>]_vars

\* An event that carries a project path has matched no tab and was dropped
\* with one warning.
C9_Witness ==
  /\ lastEvent.status \in Statuses
  /\ lastEvent.project_path # Undefined
  /\ lastEvent.project_path # <<>>
  /\ lastMatch = NoMatch
  /\ lastCalls = <<>>
  /\ lastLogs = << Log("warn", lastEvent.session_id, Undefined) >>

(***************************************************************************)
(* C10.  Single subscription: during one mount listen() is called exactly  *)
(* once, by the mount effects, and at most one subscription is active at   *)
(* any time, whatever changes of the tab collection and of the update      *)
(* callback are rendered.                                                  *)
(***************************************************************************)
C10_SingleSubscription ==
  /\ listenCalls = (IF phase = "rendered" THEN 0 ELSE 1)
  /\ activeSubs <= 1

\* The surface is mounted with its subscription active, and has re-rendered
\* with a changed tab collection and a changed update callback.
C10_Witness ==
  /\ phase = "mounted"
  /\ listenCalls = 1
  /\ activeSubs = 1
  /\ lastCalls # <<>>
  /\ tabsRef = tabs
  /\ updateFnRef = "f2"

(***************************************************************************)
(* C11.  Stopped transition and outcome fields, as claimed: whenever the   *)
(* listener handles a `stopped` event whose matched tab is 'streaming', it *)
(* issues updateTabStreamingStatus(tab.id, false, null) and the tab        *)
(* becomes idle with session id null, whatever the event's error and       *)
(* success fields; and when the error field is present, one error          *)
(* diagnostic citing the session id and the error text is emitted.         *)
(***************************************************************************)
C11_StoppedWhateverOutcome ==
  [][LET e == lastEvent'
         m == lastMatch'
     IN ( /\ Handled
          /\ e.status = "stopped"
          /\ m.by # "none"
          /\ m.tab.state = "streaming" ) =>
            /\ lastCalls' = << Call(m.tab.id, FALSE, Null) >>
            /\ RegistryTabIs(tabs', m.tab.id, "idle", Null)
            /\ e.error # Undefined =>
                 lastLogs' = << Log("error", e.session_id, e.error) >>]_vars

(***************************************************************************)
(* C11, amended.  The same transition, whatever the outcome fields; the    *)
(* error diagnostic is emitted exactly when the error field holds a        *)
(* non-empty text, and no diagnostic is emitted when it is absent or ''.   *)
(***************************************************************************)
C11_StoppedWhateverOutcome_NonEmptyError ==
  [][LET e == lastEvent'
         m == lastMatch'
     IN ( /\ Handled
          /\ e.status = "stopped"
          /\ m.by # "none"
          /\ m.tab.state = "streaming" ) =>
            /\ lastCalls' = << Call(m.tab.id, FALSE, Null) >>
            /\ RegistryTabIs(tabs', m.tab.id, "idle", Null)
            /\ lastLogs' = IF e.error # Undefined /\ e.error # <<>>
                             THEN << Log("error", e.session_id, e.error) >>
                             ELSE <<>>]_vars

\* A `stopped` event that reports a failure (success false, an error text)
\* has returned a streaming tab to idle and emitted the error diagnostic.
C11_Witness ==
  /\ lastEvent.status = "stopped"
  /\ lastEvent.success = "false"
  /\ lastEvent.error \in ErrorTexts
  /\ lastMatch.by # "none"
  /\ lastMatch.tab.state = "streaming"
  /\ lastCalls = << Call(lastMatch.tab.id, FALSE, Null) >>
  /\ lastLogs = << Log("error", lastEvent.session_id, lastEvent.error) >>
  /\ RegistryTabIs(tabs, lastMatch.tab.id, "idle", Null)

(***************************************************************************)
(* C12.  Subscription setup failure: once listen() has rejected, the       *)
(* failure has been logged once, listen() has been called once and is      *)
(* never called again, no subscription is active, the listener handles no  *)
(* event and issues no call of the registry's update operation, and the    *)
(* teardown, when it comes, calls no unlisten function.                    *)
(***************************************************************************)
C12_SetupFailure ==
  listenState = "rejected" =>
    /\ setupErrors = 1
    /\ listenCalls = 1
    /\ activeSubs = 0
    /\ unlisten = "undefined"
    /\ delivered = 0
    /\ lastCalls = <<>>
    /\ unlistenCalls = 0

\* listen() has rejected and the surface has since been torn down, after
\* the registry changed under it.
C12_Witness ==
  /\ listenState = "rejected"
  /\ phase = "unmounted"
  /\ setupErrors = 1
  /\ unlistenCalls = 0
  /\ Len(tabs) > Len(tabsRef)

(***************************************************************************)
(* Vocabulary of C13: two paths that differ only in the spelling of their  *)
(* separators, in the case of their letters and in trailing separators.    *)
(***************************************************************************)
IsSeparator(c) == c = "/" \/ c = "\\"

SameLetter(c, d) == c = d \/ {c, d} = {"A", "a"}

RECURSIVE WithoutTrailingSeparators(_)
WithoutTrailingSeparators(p) ==
  IF Len(p) > 0 /\ IsSeparator(p[Len(p)])
    THEN WithoutTrailingSeparators(SubSeq(p, 1, Len(p) - 1))
    ELSE p

DifferOnlyInSpelling(p, q) ==
  LET a == WithoutTrailingSeparators(p)
      b == WithoutTrailingSeparators(q)
  IN /\ Len(a) = Len(b)
     /\ \A i \in 1..Len(a) :
          IF IsSeparator(a[i])
            THEN IsSeparator(b[i])
            ELSE ~IsSeparator(b[i]) /\ SameLetter(a[i], b[i])

\* The three spellings of one project path the specification gives.
ExampleBackslashes ==
  << "C", ":", "\\", "U", "s", "e", "r", "s", "\\", "X", "\\", "P", "r", "o", "j" >>
ExampleTrailing ==
  << "c", ":", "/", "U", "s", "e", "r", "s", "/", "x", "/", "p", "r", "o", "j", "/" >>
ExampleUpper ==
  << "C", ":", "/", "U", "S", "E", "R", "S", "/", "X", "/", "P", "R", "O", "J" >>
ExampleNormalized ==
  << "c", ":", "/", "u", "s", "e", "r", "s", "/", "x", "/", "p", "r", "o", "j" >>

(***************************************************************************)
(* C13.  Path-normalization equivalence: two paths that differ only in     *)
(* separator style, letter case or trailing separators normalize to the    *)
(* same value, and an event that carries one of them is matched by project *)
(* path to a tab that holds the other (both non-empty); the three example  *)
(* spellings normalize to one value; normalizing a normalized path changes *)
(* nothing.                                                                *)
(***************************************************************************)
C13_PathEquivalence ==
  /\ ( pathStage \in {"normalized", "renormalized"}
       /\ DifferOnlyInSpelling(tabPath, eventPath) ) =>
         /\ normTab = normEvent
         /\ (tabPath # <<>> /\ eventPath # <<>>) => matchedBy = "path"
  /\ pathStage = "renormalized" => normAgain = normTab
  /\ pathStage = "renormalized" =>
       /\ normalizePath(ExampleBackslashes) = ExampleNormalized
       /\ normalizePath(ExampleTrailing) = ExampleNormalized
       /\ normalizePath(ExampleUpper) = ExampleNormalized

\* "A\a" and "a/A" have been normalized to "a/a" and matched; normalizing
\* again gave "a/a".
C13_Witness ==
  /\ pathStage = "renormalized"
  /\ tabPath = << "A", "\\", "a" >>
  /\ eventPath = << "a", "/", "A" >>
  /\ normTab = << "a", "/", "a" >>
  /\ normEvent = normTab
  /\ normAgain = normTab
  /\ matchedBy = "path"

(***************************************************************************)
(* Vocabulary of C14..C16.                                                 *)
(***************************************************************************)
\* This step is the settling of an invoke() call; lastSettled' describes it.
LoadSettled == settled' = settled + 1

\* The message contains 'not found' or 'Unknown command'.
ContainsText(text, needle) ==
  \E i \in 1..Len(text) :
    /\ i + Len(needle) - 1 <= Len(text)
    /\ \A k \in 1..Len(needle) : text[i + k - 1] = needle[k]

SaysBackendMissing(message) ==
  \/ ContainsText(message, NeedleNotFound)
  \/ ContainsText(message, NeedleUnknown)

\* The current options switch the custom commands off.
OptionsOff == optEnabled = FALSE \/ optEngine = "codex"

(***************************************************************************)
(* C14.  Custom-command load errors: when invoke() rejects with a message  *)
(* that contains 'not found' or 'Unknown command', the load ends with an   *)
(* empty command list, error = null and isLoading = false; when it rejects *)
(* with another message, it ends with an empty command list, error = that  *)
(* message and isLoading = false; no rejection leaves loadCommands.        *)
(***************************************************************************)
C14_LoadErrors ==
  [][LET m == lastSettled'.message IN
       (LoadSettled /\ lastSettled'.kind = "rejected") =>
         /\ customCommands(rawCommands') = <<>>
         /\ loadError' = (IF SaysBackendMissing(m) THEN Null ELSE m)
         /\ isLoading' = FALSE
         /\ uncaught' = 0]_vars

(***************************************************************************)
(* C15.  Codex / disabled yields no custom commands: whenever the options  *)
(* in force are enabled = false or engine = 'codex' and the load for them  *)
(* has run, that load has issued no backend call and the custom command    *)
(* list is empty, also after a request issued under earlier options has    *)
(* completed.                                                              *)
(***************************************************************************)
C15_NoCommandsWhenOff ==
  (loaderStage = "mounted" /\ OptionsOff) =>
    /\ lastLoad.kind = "skipped"
    /\ customCommands(rawCommands) = <<>>

(***************************************************************************)
(* C16.  Latest request wins: once every request has settled, the command  *)
(* list and the error are what the request of the last load set when it    *)
(* settled, whatever the order in which overlapping requests completed;    *)
(* and isLoading is false only when no request is in flight.               *)
(***************************************************************************)
C16_LatestRequestWins ==
  /\ (inFlight = {} /\ lastLoad.kind = "request") =>
       /\ latestOutcome.known
       /\ rawCommands = latestOutcome.commands
       /\ loadError = latestOutcome.error
  /\ (loaderStage = "mounted" /\ isLoading = FALSE) => inFlight = {}

(***************************************************************************)
(* Vocabulary of C17..C19.                                                 *)
(***************************************************************************)
HasSpace(text) == \E i \in 1..Len(text) : text[i] = " "

BeginsWithSlash(text) == Len(text) > 0 /\ text[1] = "/"

\* '/' + command.name
FullCommand(command) == << "/" >> \o command.name

(***************************************************************************)
(* C17.  Slash-command detection: isSlashCommand is true, and the query    *)
(* the text after '/', only when the hook is not disabled, the prompt      *)
(* starts with '/' and holds no space; for every prompt that starts with   *)
(* '/' and holds a space after it, also a single trailing one,             *)
(* isSlashCommand is false and the menu is not open.                       *)
(***************************************************************************)
C17_SlashDetection ==
  LET d == Detected(prompt, menuDisabled)
  IN /\ d.isSlashCommand =>
          /\ ~menuDisabled
          /\ BeginsWithSlash(prompt)
          /\ ~HasSpace(prompt)
          /\ d.query = Tail(prompt)
     /\ (BeginsWithSlash(prompt) /\ HasSpace(prompt)) =>
          /\ ~d.isSlashCommand
          /\ ~isOpen

(***************************************************************************)
(* C18.  Selected index in range: in every state in which the menu is      *)
(* open, 0 <= selectedIndex < filteredCommands.length.                     *)
(***************************************************************************)
C18_SelectedIndexInRange ==
  isOpen => (0 <= selectedIndex /\ selectedIndex < Len(filteredCommands))

(***************************************************************************)
(* C19.  Dismissal is sticky: Escape on an open menu and closeMenu close   *)
(* the menu; Enter or Tab on an open menu with a command under the index,  *)
(* and selectCommand, call onCommandSelect exactly once, with '/' + the    *)
(* command's name, and close the menu; no other call into the hook calls   *)
(* onCommandSelect; once dismissed, the menu stays closed over every step  *)
(* that neither changes the query nor leaves the prompt empty; and while   *)
(* the menu is not open, handleKeyDown returns false for every key and     *)
(* changes neither selectedIndex nor the dismissed flag.                   *)
(***************************************************************************)
C19_StickyDismissal ==
  [][LET a == lastAction'
     IN /\ (a.kind = "Escape" /\ isOpen) => (a.returned /\ ~isOpen')
        /\ a.kind = "closeMenu" => ~isOpen'
        /\ ( /\ a.kind \in {"Enter", "Tab"}
             /\ isOpen
             /\ selectedIndex < Len(filteredCommands) ) =>
               /\ a.selected = << FullCommand(filteredCommands[selectedIndex + 1]) >>
               /\ a.returned
               /\ ~isOpen'
        /\ a.kind = "selectCommand" =>
             /\ Len(a.selected) = 1
             /\ \E i \in 1..Len(filteredCommands) :
                  a.selected[1] = FullCommand(filteredCommands[i])
             /\ ~isOpen'
        /\ a.kind \notin {"Enter", "Tab", "selectCommand"} => a.selected = <<>>
        /\ ( /\ isManuallyClose
             /\ Detected(prompt', menuDisabled').query = query
             /\ Trim(prompt') # <<>> ) => ~isOpen'
        /\ (a.kind \in Keys /\ ~isOpen) =>
             /\ a.returned = FALSE
             /\ a.selected = <<>>
             /\ selectedIndex' = selectedIndex
             /\ isManuallyClose' = isManuallyClose]_vars

\* With the prompt "/c" the second command of the menu, "context", was
\* selected with Enter: onCommandSelect got "/context" and the menu is
\* closed.
C19_Witness ==
  /\ prompt = << "/", "c" >>
  /\ menuEngine = "gemini"
  /\ selectedIndex = 1
  /\ lastAction.kind = "Enter"
  /\ lastAction.returned
  /\ lastAction.selected = << << "/", "c", "o", "n", "t", "e", "x", "t" >> >>
  /\ isManuallyClose
  /\ ~isOpen

====
